---- MODULE Spec2Model ----
(***************************************************************************)
(* Model of the two command-line tools under .mobius/scripts:              *)
(*   analyze_ane.py     - the ANE compatibility analyzer                   *)
(*   quantize_kokoro.py - the precision reducer                            *)
(* Each tool is a sequential program; a behaviour is one run of one tool.  *)
(* Operator names are Python strings; they are modelled as sequences of    *)
(* one-character strings so that str.lower() and the substring test `in`   *)
(* are computed character by character.                                    *)
(***************************************************************************)
EXTENDS Integers, Sequences, FiniteSets, TLC

VARIABLES
    model,        \* analyzer: the loaded model's spec (type and operator list)
    a_pc,         \* analyzer: position in analyze_ml_program / main
    a_i,          \* analyzer: number of operators/layers the loop has processed
    results,      \* analyzer: the results dict
    report,       \* analyzer: what main printed (None until it has)
    args,         \* reducer: the parsed command line
    disk,         \* reducer: the input model on disk and, once saved, the output
    r_pc,         \* reducer: position in main
    calls,        \* reducer: the external calls made so far, in order
    metrics,      \* reducer: what quantize_to_float16 / quantize_to_int8 returned
    validation,   \* reducer: how validate_quantized_model ended
    compiled,     \* reducer: what the compiler subprocess returned
    out,          \* reducer: the lines printed so far
    v_pc,         \* audio comparison on its own: position
    predicted,    \* audio comparison on its own: the two predict() results
    compared      \* audio comparison on its own: what the comparison returned

a_vars == <<model, a_pc, a_i, results, report>>
r_vars == <<args, disk, r_pc, calls, metrics, validation, compiled, out>>
v_vars == <<v_pc, predicted, compared>>

(***************************** bounds ***************************************)
\* Longest operator/layer list of an analyzed model.
MaxOps == 3

\* Longest flattened "audio" output compared on its own.
MaxAudioLen == 2

(***************************** strings **************************************)
UpperChars ==
    <<"A","B","C","D","E","F","G","H","I","J","K","L","M",
      "N","O","P","Q","R","S","T","U","V","W","X","Y","Z">>
LowerChars ==
    <<"a","b","c","d","e","f","g","h","i","j","k","l","m",
      "n","o","p","q","r","s","t","u","v","w","x","y","z">>

\* str.lower() on one character.
LowerChar(c) ==
    IF \E k \in 1..Len(UpperChars) : UpperChars[k] = c
    THEN LowerChars[CHOOSE k \in 1..Len(UpperChars) : UpperChars[k] = c]
    ELSE c

\* The characters operator names are written in.
Chars ==
    {UpperChars[k] : k \in 1..Len(UpperChars)} \cup {LowerChars[k] : k \in 1..Len(LowerChars)}
        \cup {"_", "0", "1", "2", "3", "4", "5", "6", "7", "8", "9"}

LowerTable == [c \in Chars |-> LowerChar(c)]

\* str.lower()
Lower(s) == [k \in 1..Len(s) |-> LowerTable[s[k]]]

\* Python's `sub in s` on strings.
Contains(s, sub) ==
    \E k \in 1..(Len(s) - Len(sub) + 1) : SubSeq(s, k, k + Len(sub) - 1) = sub

\* An f-string: the literal template and the interpolated values.
Msg(fmt, values) == [fmt |-> fmt, args |-> values]

\* A message references x when x is one of its interpolated values.
Mentions(m, x) == \E k \in 1..Len(m.args) : m.args[k] = x

(***************************** operator names *******************************)
S_custom == <<"c","u","s","t","o","m">>
S_customLayer == <<"c","u","s","t","o","m","L","a","y","e","r">>
S_reshape_dynamic == <<"r","e","s","h","a","p","e","_","d","y","n","a","m","i","c">>
S_slice_dynamic == <<"s","l","i","c","e","_","d","y","n","a","m","i","c">>
S_gather_nd == <<"g","a","t","h","e","r","_","n","d">>
S_einsum == <<"e","i","n","s","u","m">>
S_conv == <<"c","o","n","v">>
S_conv2d == <<"c","o","n","v","2","d">>
S_depthwise_conv2d == <<"d","e","p","t","h","w","i","s","e","_","c","o","n","v","2","d">>
S_conv_transpose == <<"c","o","n","v","_","t","r","a","n","s","p","o","s","e">>
S_linear == <<"l","i","n","e","a","r">>
S_matmul == <<"m","a","t","m","u","l">>
S_batch_matmul == <<"b","a","t","c","h","_","m","a","t","m","u","l">>
S_relu == <<"r","e","l","u">>
S_gelu == <<"g","e","l","u">>
S_silu == <<"s","i","l","u">>
S_sigmoid == <<"s","i","g","m","o","i","d">>
S_tanh == <<"t","a","n","h">>
S_leaky_relu == <<"l","e","a","k","y","_","r","e","l","u">>
S_add == <<"a","d","d">>
S_mul == <<"m","u","l">>
S_sub == <<"s","u","b">>
S_div == <<"d","i","v">>
S_real_div == <<"r","e","a","l","_","d","i","v">>
S_softmax == <<"s","o","f","t","m","a","x">>
S_layer_norm == <<"l","a","y","e","r","_","n","o","r","m">>
S_batch_norm == <<"b","a","t","c","h","_","n","o","r","m">>
S_instance_norm == <<"i","n","s","t","a","n","c","e","_","n","o","r","m">>
S_reshape == <<"r","e","s","h","a","p","e">>
S_transpose == <<"t","r","a","n","s","p","o","s","e">>
S_squeeze == <<"s","q","u","e","e","z","e">>
S_expand_dims == <<"e","x","p","a","n","d","_","d","i","m","s">>
S_flatten == <<"f","l","a","t","t","e","n">>
S_concat == <<"c","o","n","c","a","t">>
S_split == <<"s","p","l","i","t">>
S_slice_by_index == <<"s","l","i","c","e","_","b","y","_","i","n","d","e","x">>
S_gather == <<"g","a","t","h","e","r">>
S_reduce_mean == <<"r","e","d","u","c","e","_","m","e","a","n">>
S_reduce_sum == <<"r","e","d","u","c","e","_","s","u","m">>
S_reduce_max == <<"r","e","d","u","c","e","_","m","a","x">>
S_embedding == <<"e","m","b","e","d","d","i","n","g">>
S_pad == <<"p","a","d">>
S_upsample_nearest_neighbor == <<"u","p","s","a","m","p","l","e","_","n","e","a","r","e","s","t","_","n","e","i","g","h","b","o","r">>
S_custom_attention == <<"c","u","s","t","o","m","_","a","t","t","e","n","t","i","o","n">>
S_Einsum == <<"E","i","n","s","u","m">>
S_attention == <<"a","t","t","e","n","t","i","o","n">>
S_topk == <<"t","o","p","k">>
S_layer == <<"l","a","y","e","r","_">>
Digits == <<"1","2","3","4","5","6","7","8","9">>

ANE_PROBLEMATIC_OPS ==
    {S_custom, S_customLayer, S_reshape_dynamic, S_slice_dynamic, S_gather_nd, S_einsum}
ANE_OPTIMIZED_OPS ==
    {S_conv, S_conv2d, S_depthwise_conv2d, S_conv_transpose, S_linear,
     S_matmul, S_batch_matmul, S_relu, S_gelu, S_silu,
     S_sigmoid, S_tanh, S_leaky_relu, S_add, S_mul,
     S_sub, S_div, S_real_div, S_softmax, S_layer_norm,
     S_batch_norm, S_instance_norm, S_reshape, S_transpose, S_squeeze,
     S_expand_dims, S_flatten, S_concat, S_split, S_slice_by_index,
     S_gather, S_reduce_mean, S_reduce_sum, S_reduce_max, S_embedding,
     S_pad, S_upsample_nearest_neighbor}

max_sequence_length == 2048

(***************************** analyzer inputs ******************************)
\* spec.WhichOneof('Type'); "" stands for None (no variant set).
ModelTypes == {"mlProgram", "neuralNetwork", "pipeline", ""}

\* Operator / layer type names analyzed models are built from.
OpTypes ==
    {S_custom, S_customLayer, S_reshape_dynamic, S_slice_dynamic, S_gather_nd,
     S_einsum, S_custom_attention, S_Einsum, S_conv2d, S_conv_transpose,
     S_relu, S_softmax, S_matmul, S_topk}

OpLists == UNION {[1..n -> OpTypes] : n \in 0..MaxOps}

\* model.input_description as the shape loop reads it: feature name and
\* multiArrayType.shape (empty for a feature that is not a multi-array).
InputDescs ==
    { <<>>,
      <<[name |-> "input_ids", shape |-> <<1, 2048>>]>>,
      <<[name |-> "input_ids", shape |-> <<1, 2049>>]>>,
      <<[name |-> "ref_s", shape |-> <<4096>>], [name |-> "image", shape |-> <<>>]>>,
      <<[name |-> "input_ids", shape |-> <<1, 4096>>],
        [name |-> "attention_mask", shape |-> <<1, 4096>>]>> }

OutputDescs ==
    { <<[name |-> "audio", shape |-> <<1, 24000>>]>> }

\* Models on disk.  Only the two analyzed representations carry an operator list.
Models ==
    { m \in [type : ModelTypes, ops : OpLists] :
        m.type \notin {"mlProgram", "neuralNetwork"} => m.ops = <<>> }

\* layer.name of the k-th layer of a network-style model (layer names are unique).
LayerName(k) == Append(S_layer, Digits[k])

(***************************** dicts ****************************************)
\* d[k] = v on an insertion-ordered dict kept as a sequence of [name, shape].
DictSet(d, k, v) ==
    IF \E j \in 1..Len(d) : d[j].name = k
    THEN [j \in 1..Len(d) |-> IF d[j].name = k THEN [name |-> k, shape |-> v] ELSE d[j]]
    ELSE Append(d, [name |-> k, shape |-> v])

\* results["operations"].get(op_type, 0)
GetCount(operations, op_type) ==
    IF op_type \in DOMAIN operations THEN operations[op_type] ELSE 0

\* Mutant of IncrementCount: the count is stored as 1 instead of get(...) + 1.
IncrementCountNoAccumulate(operations, op_type) ==
    [k \in DOMAIN operations \cup {op_type} |->
        IF k = op_type THEN 1 ELSE operations[k]]

\* results["operations"][op_type] = results["operations"].get(op_type, 0) + 1
IncrementCount(operations, op_type) ==
    [k \in DOMAIN operations \cup {op_type} |->
        IF k = op_type THEN GetCount(operations, op_type) + 1 ELSE operations[k]]

EmptyDict == [k \in {} |-> 0]

Min(a, b) == IF a <= b THEN a ELSE b

RECURSIVE Max(_)
Max(shape) ==
    IF Len(shape) = 1 THEN shape[1]
    ELSE LET m == Max(Tail(shape)) IN IF shape[1] >= m THEN shape[1] ELSE m

\* None and a returned value.
None == <<>>
Some(x) == <<x>>

\* The audio comparison is not being run on its own.
ValidatorIdle ==
    /\ v_pc = "idle"
    /\ predicted = None
    /\ compared = None

\* The reducer's variables while the analyzer runs: the tool is not running.
ReducerIdle ==
    /\ args = None
    /\ disk = None
    /\ r_pc = "idle"
    /\ calls = <<>>
    /\ metrics = None
    /\ validation = None
    /\ compiled = None
    /\ out = <<>>

(***************************** analyze_ane.py *******************************)
InitialResults ==
    [model_path      |-> "model.mlpackage",
     format          |-> "unknown",
     ane_compatible  |-> TRUE,
     warnings        |-> <<>>,
     blocking_issues |-> <<>>,
     operations      |-> EmptyDict,
     input_shapes    |-> <<>>,
     output_shapes   |-> <<>>,
     recommendations |-> <<>>]

\* One iteration of the loop body of analyze_mlprogram_ops.
MlProgramOpBody(res, op_type) ==
    LET op_lower == Lower(op_type)
        r1 == [res EXCEPT !.operations = IncrementCount(@, op_type)]
        r2 == IF op_lower \in ANE_PROBLEMATIC_OPS
              THEN [r1 EXCEPT !.warnings =
                       Append(@, Msg("Operation '{}' may cause ANE fallback", <<op_type>>))]
              ELSE r1
    IN  IF Contains(op_lower, S_custom)
        THEN [r2 EXCEPT !.blocking_issues =
                            Append(@, Msg("Custom layer '{}' not supported on ANE", <<op_type>>)),
                        !.ane_compatible = FALSE]
        ELSE r2

\* One iteration of the loop body of analyze_neural_network_ops.
NeuralNetworkLayerBody(res, layer_type, layer_name) ==
    LET r1 == [res EXCEPT !.operations = IncrementCount(@, layer_type)]
        r2 == IF layer_type = S_custom
              THEN [r1 EXCEPT !.blocking_issues =
                                  Append(@, Msg("Custom layer '{}' not supported on ANE",
                                                <<layer_name>>)),
                              !.ane_compatible = FALSE]
              ELSE r1
    IN  IF Lower(layer_type) \in ANE_PROBLEMATIC_OPS
        THEN [r2 EXCEPT !.warnings =
                 Append(@, Msg("Layer '{}' ({}) may cause ANE fallback",
                               <<layer_name, layer_type>>))]
        ELSE r2

RecBlocking == Msg("Model contains blocking issues. Custom layers must be replaced with supported operations or the model must be re-exported.", <<>>)
RecFallback == Msg("Some operations may cause partial ANE fallback. Profile with Instruments to measure actual ANE utilization.", <<>>)
RecFloat16 == Msg("Consider Float16 precision for compute-heavy operations. Use compute_precision=ct.precision.FLOAT16 during conversion.", <<>>)
RecAlignment == Msg("Ensure convolution channel dimensions are multiples of 16 for optimal ANE tile processing.", <<>>)
RecSeqLen(seq_len) == Msg("Sequence length {} may exceed ANE limits. Consider chunking input for very long sequences.", <<seq_len>>)
RecWellOptimized == Msg("Model appears well-optimized for ANE execution.", <<>>)

\* The loop over results["input_shapes"].items() of generate_recommendations.
RECURSIVE SeqLenRecs(_)
SeqLenRecs(input_shapes) ==
    IF input_shapes = <<>> THEN <<>>
    ELSE LET shape == Head(input_shapes).shape
             here  == IF shape # <<>> /\ Len(shape) >= 2 /\ Max(shape) > max_sequence_length
                      THEN <<RecSeqLen(Max(shape))>>
                      ELSE <<>>
         IN  here \o SeqLenRecs(Tail(input_shapes))

ComputeOps == {S_matmul, S_linear, S_conv, S_conv2d}

\* Mutant of generate_recommendations: the final `if not recommendations` guard
\* is lost and the well-optimized message is always appended.
generate_recommendations_always_optimized(res) ==
    LET ops == DOMAIN res.operations
        r1 == IF ~res.ane_compatible THEN <<RecBlocking>> ELSE <<>>
        r2 == IF res.warnings # <<>> THEN <<RecFallback>> ELSE <<>>
        r3 == IF \E op \in ops : Lower(op) \in ComputeOps THEN <<RecFloat16>> ELSE <<>>
        r4 == IF \E op \in ops : Contains(Lower(op), S_conv) THEN <<RecAlignment>> ELSE <<>>
        r5 == IF \E op \in ops : Contains(Lower(op), S_attention) \/ Contains(Lower(op), S_softmax)
              THEN SeqLenRecs(res.input_shapes)
              ELSE <<>>
    IN  r1 \o r2 \o r3 \o r4 \o r5 \o <<RecWellOptimized>>

\* Mutant of generate_recommendations: the compute-heavy check matches only
\* the convolutions, so matmul and linear no longer count.
generate_recommendations_conv_only(res) ==
    LET ops == DOMAIN res.operations
        r1 == IF ~res.ane_compatible THEN <<RecBlocking>> ELSE <<>>
        r2 == IF res.warnings # <<>> THEN <<RecFallback>> ELSE <<>>
        r3 == IF \E op \in ops : Lower(op) \in {S_conv, S_conv2d} THEN <<RecFloat16>> ELSE <<>>
        r4 == IF \E op \in ops : Contains(Lower(op), S_conv) THEN <<RecAlignment>> ELSE <<>>
        r5 == IF \E op \in ops : Contains(Lower(op), S_attention) \/ Contains(Lower(op), S_softmax)
              THEN SeqLenRecs(res.input_shapes)
              ELSE <<>>
        recommendations == r1 \o r2 \o r3 \o r4 \o r5
    IN  IF recommendations = <<>> THEN <<RecWellOptimized>> ELSE recommendations

generate_recommendations(res) ==
    LET ops == DOMAIN res.operations
        r1 == IF ~res.ane_compatible THEN <<RecBlocking>> ELSE <<>>
        r2 == IF res.warnings # <<>> THEN <<RecFallback>> ELSE <<>>
        has_compute_ops == \E op \in ops : Lower(op) \in ComputeOps
        r3 == IF has_compute_ops THEN <<RecFloat16>> ELSE <<>>
        r4 == IF \E op \in ops : Contains(Lower(op), S_conv) THEN <<RecAlignment>> ELSE <<>>
        r5 == IF \E op \in ops : Contains(Lower(op), S_attention) \/ Contains(Lower(op), S_softmax)
              THEN SeqLenRecs(res.input_shapes)
              ELSE <<>>
        recommendations == r1 \o r2 \o r3 \o r4 \o r5
    IN  IF recommendations = <<>> THEN <<RecWellOptimized>> ELSE recommendations

\* The two shape loops of analyze_ml_program.
RECURSIVE CollectShapes(_, _)
CollectShapes(descs, acc) ==
    IF descs = <<>> THEN acc
    ELSE CollectShapes(Tail(descs), DictSet(acc, Head(descs).name, Head(descs).shape))

InitAnalyzer ==
    /\ model \in Models
    /\ a_pc = "dispatch"
    /\ a_i = 0
    /\ results = InitialResults
    /\ report = None
    /\ ReducerIdle
    /\ ValidatorIdle

AfterOps(n) == IF n >= Len(model.ops) THEN "shapes" ELSE a_pc

\* analyze_ml_program: the dispatch on spec.WhichOneof('Type').
DetermineFormat ==
    /\ a_pc = "dispatch"
    /\ results' = [results EXCEPT !.format =
                      IF model.type = "mlProgram" THEN "mlprogram"
                      ELSE IF model.type = "neuralNetwork" THEN "neuralNetwork"
                      ELSE IF model.type # "" THEN model.type ELSE "unknown"]
    /\ a_pc' = IF model.ops = <<>> THEN "shapes"
               ELSE IF model.type = "mlProgram" THEN "mlprogram_ops"
               ELSE IF model.type = "neuralNetwork" THEN "nn_layers"
               ELSE "shapes"
    /\ UNCHANGED <<model, a_i, report, r_vars, v_vars>>

\* analyze_mlprogram_ops: one operation of the nested function/block/operation
\* loops; model.ops is the order in which they visit the operations.
MlProgramOp ==
    /\ a_pc = "mlprogram_ops"
    /\ a_i < Len(model.ops)
    /\ results' = MlProgramOpBody(results, model.ops[a_i + 1])
    /\ a_i' = a_i + 1
    /\ a_pc' = AfterOps(a_i + 1)
    /\ UNCHANGED <<model, report, r_vars, v_vars>>

\* analyze_neural_network_ops: one layer.
NeuralNetworkLayer ==
    /\ a_pc = "nn_layers"
    /\ a_i < Len(model.ops)
    /\ results' = NeuralNetworkLayerBody(results, model.ops[a_i + 1], LayerName(a_i + 1))
    /\ a_i' = a_i + 1
    /\ a_pc' = AfterOps(a_i + 1)
    /\ UNCHANGED <<model, report, r_vars, v_vars>>

\* analyze_ml_program: input and output shapes.
AnalyzeShapes ==
    /\ a_pc = "shapes"
    /\ \E input_description \in InputDescs, output_description \in OutputDescs :
          results' = [results EXCEPT
                         !.input_shapes = CollectShapes(input_description, <<>>),
                         !.output_shapes = CollectShapes(output_description, <<>>)]
    /\ a_pc' = "recommend"
    /\ UNCHANGED <<model, a_i, report, r_vars, v_vars>>

\* analyze_ml_program: results["recommendations"] = generate_recommendations(results)
Recommend ==
    /\ a_pc = "recommend"
    /\ results' = [results EXCEPT !.recommendations = generate_recommendations(results)]
    /\ a_pc' = "done"
    /\ UNCHANGED <<model, a_i, report, r_vars, v_vars>>

\* results["operations"].items(): a dict iterates in insertion order, which is
\* the order in which the operator types first occurred in the walked list.
RECURSIVE OperationItems(_, _, _)
OperationItems(ops, operations, seen) ==
    IF ops = <<>> THEN <<>>
    ELSE IF Head(ops) \in seen \/ Head(ops) \notin DOMAIN operations
         THEN OperationItems(Tail(ops), operations, seen)
         ELSE <<[op |-> Head(ops), count |-> operations[Head(ops)]]>>
                  \o OperationItems(Tail(ops), operations, seen \cup {Head(ops)})

\* sorted(..., key=lambda x: -x[1]) is stable: an item goes after every item
\* already placed whose count is not smaller.
RECURSIVE InsertByCount(_, _)
InsertByCount(sorted, item) ==
    IF sorted = <<>> THEN <<item>>
    ELSE IF Head(sorted).count >= item.count
         THEN <<Head(sorted)>> \o InsertByCount(Tail(sorted), item)
         ELSE <<item>> \o sorted

RECURSIVE SortByCount(_, _)
SortByCount(items, sorted) ==
    IF items = <<>> THEN sorted
    ELSE SortByCount(Tail(items), InsertByCount(sorted, Head(items)))

\* sorted_ops[:20]
ReportLimit == 20

\* print_report: the status mark of one operator line ("optimized" is the
\* check mark, "problematic" the cross, "unknown" the warning sign).
OpStatus(op) ==
    LET op_lower == Lower(op)
    IN  IF \/ op_lower \in ANE_OPTIMIZED_OPS
           \/ \E opt \in ANE_OPTIMIZED_OPS : Contains(op_lower, opt)
        THEN "optimized"
        ELSE IF op_lower \in ANE_PROBLEMATIC_OPS THEN "problematic"
        ELSE "unknown"

\* OpStatus of every operator type a model can carry, computed once.
OpStatusTable == [op \in OpTypes |-> OpStatus(op)]

\* print_report: the OPERATION COUNTS section.
OperationLines(ops, operations) ==
    LET sorted_ops == SortByCount(OperationItems(ops, operations, {}), <<>>)
        shown == SubSeq(sorted_ops, 1, Min(Len(sorted_ops), ReportLimit))
    IN  [lines |-> [k \in 1..Len(shown) |->
                       [status |-> OpStatusTable[shown[k].op], op |-> shown[k].op,
                        count |-> shown[k].count]],
         more  |-> IF Len(sorted_ops) > ReportLimit THEN Len(sorted_ops) - ReportLimit ELSE 0]

\* main with --json: print(json.dumps(results, indent=2)).
PrintJson ==
    /\ a_pc = "done"
    /\ report' = Some([json |-> TRUE, dumped |-> results])
    /\ a_pc' = "exit"
    /\ UNCHANGED <<model, a_i, results, r_vars, v_vars>>

\* main without --json: print_report(results).
PrintReport ==
    /\ a_pc = "done"
    /\ report' = Some([json            |-> FALSE,
                       model_path      |-> results.model_path,
                       format          |-> results.format,
                       ane_compatible  |-> results.ane_compatible,
                       input_shapes    |-> results.input_shapes,
                       output_shapes   |-> results.output_shapes,
                       blocking_issues |-> results.blocking_issues,
                       warnings        |-> results.warnings,
                       operations      |-> OperationLines(model.ops, results.operations),
                       recommendations |-> results.recommendations])
    /\ a_pc' = "exit"
    /\ UNCHANGED <<model, a_i, results, r_vars, v_vars>>

NextAnalyzer ==
    \/ DetermineFormat
    \/ MlProgramOp
    \/ NeuralNetworkLayer
    \/ AnalyzeShapes
    \/ Recommend
    \/ PrintJson
    \/ PrintReport

(***************************** quantize_kokoro.py ***************************)
\* The analyzer's variables while the reducer runs: the tool is not running.
AnalyzerIdle ==
    /\ model = None
    /\ a_pc = "idle"
    /\ a_i = 0
    /\ results = None
    /\ report = None

S_mlpackage == <<".","m","l","p","a","c","k","a","g","e">>
OutputPaths ==
    { <<"o","u","t","/","k",".","m","l","p","a","c","k","a","g","e">>,
      <<"o","u","t","/","k",".","m","l","m","o","d","e","l">> }

\* str.endswith
EndsWith(s, suffix) ==
    /\ Len(s) >= Len(suffix)
    /\ SubSeq(s, Len(s) - Len(suffix) + 1, Len(s)) = suffix

\* os.path.dirname: everything before the last "/".
Dirname(path) ==
    LET slashes == {k \in 1..Len(path) : path[k] = "/"}
    IN  IF slashes = {} THEN <<>>
        ELSE SubSeq(path, 1, (CHOOSE k \in slashes : \A j \in slashes : j <= k) - 1)

(* exact rational arithmetic for the float computations on sizes *)
RECURSIVE GCD(_, _)
GCD(a, b) == IF b = 0 THEN a ELSE GCD(b, a % b)
Abs(x) == IF x < 0 THEN -x ELSE x
Rat(n, d) ==
    LET g == GCD(Abs(n), Abs(d))
        sgn == IF d < 0 THEN -1 ELSE 1
    IN  [num |-> sgn * (n \div g), den |-> sgn * (d \div g)]
RatSub(a, b) == Rat(a.num * b.den - b.num * a.den, a.den * b.den)
RatDiv(a, b) == Rat(a.num * b.den, a.den * b.num)
RatMul(a, b) == Rat(a.num * b.num, a.den * b.den)
RatInt(n) == Rat(n, 1)

MiB == 1024 * 1024

\* What os.walk finds under a path: each file's size in bytes and whether
\* os.path.isfile holds for it.  A path that is a single file, not a directory
\* bundle, yields nothing.
File(size, isfile) == [size |-> size, isfile |-> isfile]
InputTrees ==
    { <<>>,
      <<File(100 * MiB, TRUE)>>,
      <<File(150 * MiB, TRUE), File(50 * MiB, TRUE), File(7, FALSE)>>,
      <<File(3 * MiB, TRUE), File(MiB \div 2, TRUE)>> }
OutputTrees ==
    { <<File(52 * MiB, TRUE)>>,
      <<File(60 * MiB, TRUE), File(40 * MiB, TRUE)>>,
      <<File(2 * MiB, TRUE), File(MiB \div 4, TRUE), File(9, FALSE)>> }

RECURSIVE TotalBytes(_)
TotalBytes(tree) ==
    IF tree = <<>> THEN 0
    ELSE (IF Head(tree).isfile THEN Head(tree).size ELSE 0) + TotalBytes(Tail(tree))

get_model_size_mb(tree) == Rat(TotalBytes(tree), MiB)

\* An external call: the step of main that made it, what it is, and whether it raised.
Call(step, kind, fn, detail, raised) ==
    [step |-> step, kind |-> kind, fn |-> fn, detail |-> detail, raised |-> raised]

\* The quantization entry point quantize_to_float16 selects.
Float16Transform(type) ==
    IF type = "mlProgram"
    THEN [fn |-> "ct.optimize.coreml.linear_quantize_weights",
          detail |-> <<"mode=linear_symmetric", "dtype=float16">>]
    ELSE [fn |-> "quantization_utils.quantize_weights",
          detail |-> <<"nbits=16", "quantization_mode=linear">>]

\* Mutant of Int8Transform: the format branch is lost and palettization is
\* applied to every model.
Int8TransformAlwaysPalettize(type) ==
    [fn |-> "ct.optimize.coreml.palettize_weights", detail |-> <<"mode=kmeans", "nbits=8">>]

\* The quantization entry point quantize_to_int8 selects.
Int8Transform(type) ==
    IF type = "mlProgram"
    THEN [fn |-> "ct.optimize.coreml.palettize_weights",
          detail |-> <<"mode=kmeans", "nbits=8">>]
    ELSE [fn |-> "quantization_utils.quantize_weights",
          detail |-> <<"nbits=8", "quantization_mode=kmeans">>]

\* target_map.get(min_target, ct.target.iOS16)
TargetMap(min_target) ==
    IF min_target = "ios15" THEN "ct.target.iOS15"
    ELSE IF min_target = "ios17" THEN "ct.target.iOS17"
    ELSE "ct.target.iOS16"

\* Mutant of ShouldCompile: the suffix test on the output path is lost.
ShouldCompileAnyOutput(a) == a.compile

\* main: `if args.compile and args.output.endswith(".mlpackage")`
ShouldCompile(a) == a.compile /\ EndsWith(a.output, S_mlpackage)

\* main: where control goes after the quantization call returns.
AfterQuantize(a) ==
    IF a.validate THEN "validate"
    ELSE IF ShouldCompile(a) THEN "compile"
    ELSE "done"

\* main: where control goes after validate_quantized_model returns.
AfterValidate(a) == IF ShouldCompile(a) THEN "compile" ELSE "done"

ArgSets ==
    [input     : {"kokoro_21_15s"},
     output    : OutputPaths,
     precision : {"float16", "int8"},
     from_onnx : BOOLEAN,
     validate  : BOOLEAN,
     compile   : BOOLEAN,
     target    : {"ios15", "ios16", "ios17"}]

DiskSets ==
    [type   : {"mlProgram", "neuralNetwork", "pipeline"},
     input  : InputTrees,
     output : {None}]

InitReducer ==
    /\ AnalyzerIdle
    /\ ValidatorIdle
    /\ args \in ArgSets
    /\ disk \in DiskSets
    /\ r_pc = "main"
    /\ calls = <<>>
    /\ metrics = None
    /\ validation = None
    /\ compiled = None
    /\ out = <<>>

\* main with --from-onnx: convert_onnx_to_coreml_fp16, then return.
ConvertOnnx ==
    /\ r_pc = "main"
    /\ args.from_onnx
    /\ \E failure \in {"none", "convert", "save"}, tree \in OutputTrees :
          LET convert == Call("convert", "transform", "ct.convert",
                              <<TargetMap(args.target), "compute_precision=FLOAT16",
                                "convert_to=mlprogram">>, failure = "convert")
              save == Call("convert", "save", "model.save", args.output, failure = "save")
          IN  /\ calls' = IF failure = "convert" THEN <<convert>> ELSE <<convert, save>>
              /\ disk' = IF failure = "none" THEN [disk EXCEPT !.output = Some(tree)] ELSE disk
              /\ out' = IF failure = "none"
                        THEN out \o <<Msg("Converting ONNX to CoreML (Float16): {}", <<args.input>>),
                                      Msg("Saved to: {}", <<args.output>>),
                                      Msg("ONNX conversion complete!", <<>>)>>
                        ELSE Append(out, Msg("Converting ONNX to CoreML (Float16): {}", <<args.input>>))
              /\ r_pc' = IF failure = "none" THEN "exited_ok" ELSE "exited_error"
    /\ UNCHANGED <<a_vars, v_vars, args, metrics, validation, compiled>>

\* main without --from-onnx: analyze_model(args.input).
AnalyzeModel ==
    /\ r_pc = "main"
    /\ ~args.from_onnx
    /\ \E raised \in BOOLEAN :
          /\ calls' = Append(calls, Call("analyze", "load", "ct.models.MLModel", args.input, raised))
          /\ out' = IF raised
                    THEN Append(out, Msg("Analyzing model: {}", <<args.input>>))
                    ELSE out \o <<Msg("Analyzing model: {}", <<args.input>>),
                                  Msg("Model size: {} MB", <<get_model_size_mb(disk.input)>>)>>
          /\ r_pc' = IF raised THEN "exited_error" ELSE "quantize"
    /\ UNCHANGED <<a_vars, v_vars, args, disk, metrics, validation, compiled>>

\* quantize_to_float16 and quantize_to_int8 share their body up to the entry
\* point they select; `transform` is that entry point.
QuantizeBody(transform, done_line) ==
    \E failure \in {"none", "load", "transform", "save"}, tree \in OutputTrees :
        LET load == Call("quantize", "load", "ct.models.MLModel", args.input, failure = "load")
            xf   == Call("quantize", "transform", transform.fn, transform.detail,
                         failure = "transform")
            save == Call("quantize", "save", "quantized_model.save", args.output,
                         failure = "save")
            original_size  == get_model_size_mb(disk.input)
            quantized_size == get_model_size_mb(tree)
            \* (original_size - quantized_size) / original_size raises
            \* ZeroDivisionError when no regular file was found under the input
            zero_division  == original_size.num = 0
            reduction == RatMul(RatDiv(RatSub(original_size, quantized_size), original_size),
                                RatInt(100))
        IN  /\ calls' = calls \o (IF failure = "load" THEN <<load>>
                                  ELSE IF failure = "transform" THEN <<load, xf>>
                                  ELSE <<load, xf, save>>)
            /\ disk' = IF failure = "none" THEN [disk EXCEPT !.output = Some(tree)] ELSE disk
            /\ IF failure = "none" /\ ~zero_division
               THEN /\ metrics' = Some([original_size_mb  |-> original_size,
                                        quantized_size_mb |-> quantized_size,
                                        reduction_percent |-> reduction])
                    /\ out' = Append(out, Msg(done_line, <<original_size, quantized_size, reduction>>))
                    /\ r_pc' = AfterQuantize(args)
               ELSE /\ metrics' = None
                    /\ out' = out
                    /\ r_pc' = "exited_error"

QuantizeToFloat16 ==
    /\ r_pc = "quantize"
    /\ args.precision = "float16"
    /\ QuantizeBody(Float16Transform(disk.type), "Quantization complete!")
    /\ UNCHANGED <<a_vars, v_vars, args, validation, compiled>>

QuantizeToInt8 ==
    /\ r_pc = "quantize"
    /\ args.precision # "float16"
    /\ QuantizeBody(Int8Transform(disk.type), "Int8 quantization complete!")
    /\ UNCHANGED <<a_vars, v_vars, args, validation, compiled>>

\* One model's predict() result: whether it has an "audio" entry, and that
\* entry flattened.
Prediction(has_audio, audio) == [has_audio |-> has_audio, audio |-> audio]
Predictions ==
    { Prediction(FALSE, <<>>),
      Prediction(TRUE, <<>>),
      Prediction(TRUE, <<0>>),
      Prediction(TRUE, <<100>>),
      Prediction(TRUE, <<100, 99>>),
      Prediction(TRUE, <<100, 100, 100>>) }

RECURSIVE SumSeq(_)
SumSeq(xs) == IF xs = <<>> THEN 0 ELSE Head(xs) + SumSeq(Tail(xs))
RECURSIVE MaxSeq(_)
MaxSeq(xs) ==
    IF Len(xs) = 1 THEN xs[1]
    ELSE LET m == MaxSeq(Tail(xs)) IN IF xs[1] >= m THEN xs[1] ELSE m

\* The comparison inside the try block of validate_quantized_model, given both
\* predictions.  snr_db is kept as the power ratio it is the logarithm of:
\* 10*log10(r) > 40 iff r > 10^4, and > 30 iff r > 10^3.
CompareAudio(orig_output, quant_output) ==
    IF ~(orig_output.has_audio /\ quant_output.has_audio)
    THEN [ret |-> None, raised |-> FALSE, quality |-> "none"]
    ELSE
    LET min_len == Min(Len(orig_output.audio), Len(quant_output.audio))
        orig_audio  == SubSeq(orig_output.audio, 1, min_len)
        quant_audio == SubSeq(quant_output.audio, 1, min_len)
        noise == [k \in 1..min_len |-> orig_audio[k] - quant_audio[k]]
        signal_sum == SumSeq([k \in 1..min_len |-> orig_audio[k] * orig_audio[k]])
        noise_sum  == SumSeq([k \in 1..min_len |-> noise[k] * noise[k]])
        \* np.mean of an empty array is nan, and nan > 0 is False
        noise_power_positive == min_len > 0 /\ noise_sum > 0
        snr == IF noise_power_positive
               THEN [inf |-> FALSE, ratio |-> Rat(signal_sum, noise_sum)]
               ELSE [inf |-> TRUE, ratio |-> Rat(0, 1)]
        above(t) == snr.inf \/ snr.ratio.num > t * snr.ratio.den
        abs_noise == [k \in 1..min_len |-> Abs(noise[k])]
    IN  IF min_len = 0
        \* np.max of an empty array raises ValueError
        THEN [ret |-> None, raised |-> TRUE, quality |-> "none"]
        ELSE [ret |-> Some([snr_db |-> snr,
                            max_error |-> RatInt(MaxSeq(abs_noise)),
                            mean_error |-> Rat(SumSeq(abs_noise), min_len)]),
              raised |-> FALSE,
              quality |-> IF above(10000) THEN "excellent"
                          ELSE IF above(1000) THEN "good"
                          ELSE "fair"]

\* validate_quantized_model(args.input, args.output).  `failure` is the external
\* call that raises, if any.
ValidateQuantizedModel ==
    /\ r_pc = "validate"
    /\ \E failure \in {"none", "load_original", "load_quantized",
                       "predict_original", "predict_quantized"} :
          LET load_o == Call("validate", "load", "ct.models.MLModel", args.input,
                             failure = "load_original")
              load_q == Call("validate", "load", "ct.models.MLModel", args.output,
                             failure = "load_quantized")
              pred_o == Call("validate", "predict", "original.predict", <<>>,
                             failure = "predict_original")
              pred_q == Call("validate", "predict", "quantized.predict", <<>>,
                             failure = "predict_quantized")
              start == Msg("Validating quantized model...", <<>>)
              warn == Msg("Validation failed: {}", <<failure>>)
          IN  CASE failure = "load_original" ->
                    \* outside the try block: the exception leaves main
                    /\ calls' = calls \o <<load_o>>
                    /\ validation' = Some([failure |-> failure, caught |-> FALSE,
                                           ret |-> None, quality |-> "none"])
                    /\ out' = Append(out, start)
                    /\ r_pc' = "exited_error"
                [] failure = "load_quantized" ->
                    /\ calls' = calls \o <<load_o, load_q>>
                    /\ validation' = Some([failure |-> failure, caught |-> FALSE,
                                           ret |-> None, quality |-> "none"])
                    /\ out' = Append(out, start)
                    /\ r_pc' = "exited_error"
                [] failure = "predict_original" ->
                    /\ calls' = calls \o <<load_o, load_q, pred_o>>
                    /\ validation' = Some([failure |-> failure, caught |-> TRUE,
                                           ret |-> None, quality |-> "none"])
                    /\ out' = out \o <<start, warn>>
                    /\ r_pc' = AfterValidate(args)
                [] failure = "predict_quantized" ->
                    /\ calls' = calls \o <<load_o, load_q, pred_o, pred_q>>
                    /\ validation' = Some([failure |-> failure, caught |-> TRUE,
                                           ret |-> None, quality |-> "none"])
                    /\ out' = out \o <<start, warn>>
                    /\ r_pc' = AfterValidate(args)
                [] OTHER ->
                    \E orig_output \in Predictions, quant_output \in Predictions :
                    LET cmp == CompareAudio(orig_output, quant_output) IN
                    /\ calls' = calls \o <<load_o, load_q, pred_o, pred_q>>
                    /\ validation' = Some([failure |-> IF cmp.raised THEN "numpy" ELSE "none",
                                           caught |-> cmp.raised,
                                           ret |-> cmp.ret, quality |-> cmp.quality])
                    /\ out' = out \o (IF cmp.raised
                                      THEN <<start, Msg("Validation failed: {}", <<"numpy">>)>>
                                      ELSE IF cmp.ret = None THEN <<start>>
                                      ELSE <<start, Msg("Quality: {}", <<cmp.quality>>)>>)
                    /\ r_pc' = AfterValidate(args)
    /\ UNCHANGED <<a_vars, v_vars, args, disk, metrics, compiled>>

\* compile_for_device(args.output, os.path.dirname(args.output)); main drops
\* the boolean it returns.
CompileForDevice ==
    /\ r_pc = "compile"
    /\ \E run \in {"not_found", "exit"}, returncode \in {0, 1}, stderr \in {"", "coremlcompiler: error"} :
          /\ run = "not_found" => returncode = 1 /\ stderr = ""
          /\ returncode = 0 => stderr = ""
          /\ calls' = Append(calls, Call("compile", "compile", "xcrun coremlcompiler compile",
                                         <<args.output, Dirname(args.output)>>, run = "not_found"))
          /\ IF run = "not_found"
             THEN /\ compiled' = None
                  /\ out' = Append(out, Msg("Compiling to .mlmodelc: {}", <<args.output>>))
                  /\ r_pc' = "exited_error"
             ELSE /\ compiled' = Some([returncode |-> returncode, stderr |-> stderr,
                                       ret |-> (returncode = 0)])
                  /\ out' = out \o <<Msg("Compiling to .mlmodelc: {}", <<args.output>>),
                                     IF returncode = 0
                                     THEN Msg("Compiled to: {}", <<Dirname(args.output)>>)
                                     ELSE Msg("Compilation failed: {}", <<stderr>>)>>
                  /\ r_pc' = "done"
    /\ UNCHANGED <<a_vars, v_vars, args, disk, metrics, validation>>

\* main: print("Done!") and return.
Done ==
    /\ r_pc = "done"
    /\ out' = Append(out, Msg("Done!", <<>>))
    /\ r_pc' = "exited_ok"
    /\ UNCHANGED <<a_vars, v_vars, args, disk, calls, metrics, validation, compiled>>

NextReducer ==
    \/ ConvertOnnx
    \/ AnalyzeModel
    \/ QuantizeToFloat16
    \/ QuantizeToInt8
    \/ ValidateQuantizedModel
    \/ CompileForDevice
    \/ Done

(***************** validate_quantized_model: the audio comparison ***********)
\* Sample values of the flattened "audio" outputs.  Powers are sums of squares,
\* so 200 against 199 is a ratio of 40000 (above 40 dB), 100 against 99 a ratio
\* of exactly 10^4 (40 dB), 1 against 0 a ratio of 1 (0 dB).
AudioSamples == {0, 1, 99, 100, 199, 200}
Audios == UNION {[1..n -> AudioSamples] : n \in 0..MaxAudioLen}
AudioPredictions == {Prediction(FALSE, <<>>)} \cup {Prediction(TRUE, a) : a \in Audios}

InitValidator ==
    /\ AnalyzerIdle
    /\ ReducerIdle
    /\ v_pc = "predicted"
    /\ predicted \in [orig : AudioPredictions, quant : AudioPredictions]
    /\ compared = None

\* The body of the try block of validate_quantized_model once both predict()
\* calls have returned: the comparison, its report, and the value returned.
CompareOutputs ==
    /\ v_pc = "predicted"
    /\ compared' = Some(CompareAudio(predicted.orig, predicted.quant))
    /\ v_pc' = "returned"
    /\ UNCHANGED <<a_vars, r_vars, predicted>>

NextValidator == CompareOutputs

vars == <<model, a_pc, a_i, results, report, args, disk, r_pc, calls, metrics, validation, compiled, out,
          v_pc, predicted, compared>>

SpecValidator == InitValidator /\ [][NextValidator]_vars

SpecAnalyzer == InitAnalyzer /\ [][NextAnalyzer]_vars

SpecReducer == InitReducer /\ [][NextReducer]_vars


(***************************** analyzer claims ******************************)
\* The analyzer has left the operator loop of a model in one of the two
\* analyzed representations.
Analyzed == a_pc \in {"shapes", "recommend", "done"} /\ model.type \in {"mlProgram", "neuralNetwork"}

IsCustomName(op) == Contains(Lower(op), S_custom)

\* The k-th operator is named by a message: by its type, or for a network-style
\* layer by its layer name.
NamesOperator(m, k) ==
    \/ Mentions(m, model.ops[k])
    \/ model.type = "neuralNetwork" /\ Mentions(m, LayerName(k))

\* C1: in either representation, once the analysis has walked the operator
\* list, every operator whose lower-cased type name contains "custom" has a
\* blocking issue naming it, blocking_issues is non-empty and ane_compatible is
\* false; the verdict is true before the first operator is processed.
C1_CustomAlwaysBlocks ==
    /\ (a_pc = "dispatch" => results.ane_compatible)
    /\ Analyzed =>
          \A k \in 1..Len(model.ops) :
              IsCustomName(model.ops[k]) =>
                  /\ results.blocking_issues # <<>>
                  /\ \E j \in 1..Len(results.blocking_issues) :
                         NamesOperator(results.blocking_issues[j], k)
                  /\ ~results.ane_compatible

\* C1, the part about the verdict's direction: once false, ane_compatible
\* stays false.
C1_VerdictMonotone ==
    [][a_pc # "idle" /\ ~results.ane_compatible => ~results'.ane_compatible]_vars

\* C1 restricted to program-style models, where the substring test is applied.
C1_CustomBlocksMlProgram ==
    (Analyzed /\ model.type = "mlProgram") =>
        \A k \in 1..Len(model.ops) :
            IsCustomName(model.ops[k]) =>
                /\ \E j \in 1..Len(results.blocking_issues) :
                       Mentions(results.blocking_issues[j], model.ops[k])
                /\ ~results.ane_compatible

\* C2: a model whose only operator is a member of ANE_PROBLEMATIC_OPS ends with
\* a non-empty warnings list holding a warning that references that operator.
C2_ProblematicOpWarns ==
    (Analyzed /\ Len(model.ops) = 1 /\ model.ops[1] \in ANE_PROBLEMATIC_OPS) =>
        /\ results.warnings # <<>>
        /\ \E j \in 1..Len(results.warnings) : Mentions(results.warnings[j], model.ops[1])

\* The model's operators are all members of ANE_OPTIMIZED_OPS, and there is one.
AllOptimized ==
    /\ model.type \in {"mlProgram", "neuralNetwork"}
    /\ model.ops # <<>>
    /\ \A k \in 1..Len(model.ops) : model.ops[k] \in ANE_OPTIMIZED_OPS

\* Some recorded input shape has rank >= 2 and a dimension above 2048.
LongInput ==
    \E j \in 1..Len(results.input_shapes) :
        LET shape == results.input_shapes[j].shape
        IN  Len(shape) >= 2 /\ \E d \in 1..Len(shape) : shape[d] > 2048

\* C3 as stated: a model of optimized operators only ends with no warnings, no
\* blocking issues, ane_compatible true and the well-optimized message as its
\* single recommendation.
C3_NeutralCase ==
    (a_pc = "done" /\ AllOptimized) =>
        /\ results.warnings = <<>>
        /\ results.blocking_issues = <<>>
        /\ results.ane_compatible
        /\ results.recommendations = <<RecWellOptimized>>

\* C3 amended: a model of optimized operators only ends with no warnings, no
\* blocking issues and ane_compatible true; its recommendations are the single
\* well-optimized message unless an operator is matmul/linear/conv/conv2d, an
\* operator name contains "conv", or softmax meets a long input shape, and in
\* those cases the list is non-empty and does not hold that message.
C3_NeutralCaseAmended ==
    (a_pc = "done" /\ AllOptimized) =>
        LET advised ==
                \/ \E k \in 1..Len(model.ops) :
                       model.ops[k] \in {S_matmul, S_linear, S_conv, S_conv2d}
                \/ \E k \in 1..Len(model.ops) : Contains(model.ops[k], S_conv)
                \/ (\E k \in 1..Len(model.ops) : model.ops[k] = S_softmax) /\ LongInput
        IN  /\ results.warnings = <<>>
            /\ results.blocking_issues = <<>>
            /\ results.ane_compatible
            /\ IF advised
               THEN /\ results.recommendations # <<>>
                    /\ \A j \in 1..Len(results.recommendations) :
                           results.recommendations[j] # RecWellOptimized
               ELSE results.recommendations = <<RecWellOptimized>>

\* C3 witness: a finished analysis of two or more optimized operators, none of
\* them advised on, with the single well-optimized recommendation.
C3_Witness ==
    /\ a_pc = "done"
    /\ AllOptimized
    /\ Len(model.ops) >= 2
    /\ model.ops[1] # model.ops[2]
    /\ results.recommendations = <<RecWellOptimized>>

\* Number of positions among the first n of the operator list that hold type t.
Occurrences(t, n) == Cardinality({k \in 1..n : model.ops[k] = t})

RECURSIVE SumCounts(_, _)
SumCounts(operations, keys) ==
    IF keys = {} THEN 0
    ELSE LET k == CHOOSE x \in keys : TRUE
         IN  operations[k] + SumCounts(operations, keys \ {k})

\* C4: after any prefix of the operator list the operations mapping holds, for
\* each type, the number of its occurrences so far; no type is present with
\* count 0; the counts sum to the number of operators processed; and once the
\* loop is over every operator of the model has been processed.
C4_OperationCounts ==
    a_pc # "idle" =>
        /\ DOMAIN results.operations = {model.ops[k] : k \in 1..a_i}
        /\ \A t \in DOMAIN results.operations :
               /\ results.operations[t] = Occurrences(t, a_i)
               /\ results.operations[t] > 0
        /\ SumCounts(results.operations, DOMAIN results.operations) = a_i
        /\ Analyzed => a_i = Len(model.ops)

\* C4 witness: a finished analysis of three operators of two types, one of
\* them counted twice.
C4_Witness ==
    /\ a_pc = "done"
    /\ a_i = 3
    /\ \E t, u \in DOMAIN results.operations :
           t # u /\ results.operations[t] = 2 /\ results.operations[u] = 1

\* C5: the recommendations of a finished analysis are never empty; the
\* well-optimized message is present exactly when the verdict is compatible,
\* there are no warnings, no operator is (lower-cased) matmul/linear/conv/conv2d
\* or contains "conv", and no attention/softmax operator meets an input shape
\* of rank >= 2 with a dimension above 2048; when present it is the only entry.
C5_WellOptimizedIffNothingTriggers ==
    a_pc = "done" =>
        LET ops == DOMAIN results.operations
            recs == results.recommendations
            triggered ==
                \/ ~results.ane_compatible
                \/ results.warnings # <<>>
                \/ \E op \in ops : Lower(op) \in {S_matmul, S_linear, S_conv, S_conv2d}
                \/ \E op \in ops : Contains(Lower(op), S_conv)
                \/ /\ \E op \in ops : \/ Contains(Lower(op), S_attention)
                                      \/ Contains(Lower(op), S_softmax)
                   /\ LongInput
            present == \E j \in 1..Len(recs) : recs[j] = RecWellOptimized
        IN  /\ recs # <<>>
            /\ present <=> ~triggered
            /\ present => recs = <<RecWellOptimized>>

\* C5 witness: a finished analysis where the sequence-length condition
\* triggered together with another one.
C5_Witness ==
    /\ a_pc = "done"
    /\ Len(results.recommendations) >= 2
    /\ \E j \in 1..Len(results.recommendations) :
           results.recommendations[j] = RecSeqLen(4096)

(***************************** reducer claims *******************************)
IsTransform(c) == c.kind = "transform"
IsSave(c) == c.kind = "save"
IsCompile(c) == c.kind = "compile"

\* quantize_to_float16 / quantize_to_int8 saved the reduced model and main has
\* moved past the quantization call.
QuantizedModelSaved ==
    /\ r_pc \notin {"idle", "main", "quantize"}
    /\ ~args.from_onnx
    /\ \E k \in 1..Len(calls) :
           calls[k].step = "quantize" /\ IsSave(calls[k]) /\ ~calls[k].raised

\* C6: every quantization run that saves the reduced model returns a metrics
\* record whose sizes are the summed sizes of the regular files under the input
\* and output paths, in MB, and whose reduction_percent is
\* (original - quantized) / original * 100.
C6_SavedRunReturnsMetrics ==
    QuantizedModelSaved =>
        /\ metrics # None
        /\ LET m == metrics[1]
               original  == Rat(TotalBytes(disk.input), MiB)
               quantized == Rat(TotalBytes(disk.output[1]), MiB)
           IN  /\ m.original_size_mb = original
               /\ m.quantized_size_mb = quantized
               /\ RatMul(m.reduction_percent, original)
                      = RatMul(RatSub(original, quantized), RatInt(100))

\* C6 on the inputs the spec names: sizes 100 and 52 give 48.
C6_Example ==
    (metrics # None /\ metrics[1].original_size_mb = RatInt(100)
                    /\ metrics[1].quantized_size_mb = RatInt(52)) =>
        metrics[1].reduction_percent = RatInt(48)

\* C7: an exception raised by a library call made during
\* validate_quantized_model (either load, either predict) is caught there: a
\* warning is printed, no metrics are returned, and the run is not ended by
\* the validation step.
C7_ValidationExceptionsCaught ==
    (validation # None /\ validation[1].failure \in
        {"load_original", "load_quantized", "predict_original", "predict_quantized"}) =>
        /\ validation[1].caught
        /\ validation[1].ret = None
        /\ \E k \in 1..Len(out) : out[k].fmt = "Validation failed: {}"
        /\ r_pc = "exited_error" => calls[Len(calls)].step # "validate"

\* C7 restricted to the calls inside the try block: a predict exception is
\* caught, warned about, and the run goes on.
C7_PredictExceptionsCaught ==
    (validation # None /\ validation[1].failure \in {"predict_original", "predict_quantized"}) =>
        /\ validation[1].caught
        /\ validation[1].ret = None
        /\ \E k \in 1..Len(out) : out[k].fmt = "Validation failed: {}"
        /\ r_pc = "exited_error" => calls[Len(calls)].step # "validate"

\* C8: a run that ends successfully has called exactly one transformation entry
\* point and saved exactly once.  With --from-onnx that is the converter and
\* nothing else is called; otherwise the entry point is fixed by precision and
\* model format.
C8_OneTransformPerRun ==
    r_pc = "exited_ok" =>
        LET transforms == SelectSeq(calls, IsTransform)
            saves == SelectSeq(calls, IsSave)
        IN  /\ Len(transforms) = 1
            /\ Len(saves) = 1
            /\ ~transforms[1].raised /\ ~saves[1].raised
            /\ IF args.from_onnx
               THEN /\ transforms[1].fn = "ct.convert"
                    /\ Len(calls) = 2
                    /\ metrics = None /\ validation = None /\ compiled = None
               ELSE /\ (args.precision = "float16" /\ disk.type = "mlProgram") =>
                          /\ transforms[1].fn = "ct.optimize.coreml.linear_quantize_weights"
                          /\ transforms[1].detail = <<"mode=linear_symmetric", "dtype=float16">>
                    /\ (args.precision = "float16" /\ disk.type = "neuralNetwork") =>
                          /\ transforms[1].fn = "quantization_utils.quantize_weights"
                          /\ transforms[1].detail = <<"nbits=16", "quantization_mode=linear">>
                    /\ (args.precision = "int8" /\ disk.type = "mlProgram") =>
                          /\ transforms[1].fn = "ct.optimize.coreml.palettize_weights"
                          /\ transforms[1].detail = <<"mode=kmeans", "nbits=8">>
                    /\ (args.precision = "int8" /\ disk.type = "neuralNetwork") =>
                          /\ transforms[1].fn = "quantization_utils.quantize_weights"
                          /\ transforms[1].detail = <<"nbits=8", "quantization_mode=kmeans">>

\* C8 witness: a successful int8 run on a network-style model that validated
\* and compiled.
C8_Witness ==
    /\ r_pc = "exited_ok"
    /\ ~args.from_onnx
    /\ args.precision = "int8"
    /\ disk.type = "neuralNetwork"
    /\ validation # None
    /\ compiled # None

CompileCalls == {k \in 1..Len(calls) : IsCompile(calls[k])}

\* The path names a package bundle.
IsPackagePath(path) ==
    /\ Len(path) >= 10
    /\ SubSeq(path, Len(path) - 9, Len(path)) = <<".","m","l","p","a","c","k","a","g","e">>

\* The compile call at position k was made on the output path, after a
\* successful save and after every call of the validation step.
CompileCallInOrder(k) ==
    /\ calls[k].detail[1] = args.output
    /\ \E j \in 1..(k - 1) : IsSave(calls[j]) /\ ~calls[j].raised
    /\ args.validate =>
          /\ validation # None
          /\ \E j \in 1..(k - 1) : calls[j].step = "validate"
          /\ \A j \in 1..Len(calls) : calls[j].step = "validate" => j < k

C10_CompilerFailurePropagates ==
    (compiled # None /\ compiled[1].returncode # 0) =>
        /\ \E k \in 1..Len(out) :
               /\ out[k].fmt = "Compilation failed: {}"
               /\ out[k].args = <<compiled[1].stderr>>
        /\ r_pc # "exited_ok"

\* C10, the reporting half: a non-zero exit is printed with the captured stderr.
C10_FailureReported ==
    (compiled # None /\ compiled[1].returncode # 0) =>
        \E k \in 1..Len(out) :
            /\ out[k].fmt = "Compilation failed: {}"
            /\ out[k].args = <<compiled[1].stderr>>

(***************************** audio comparison claims **********************)
\* Both predictions carry an "audio" entry and the comparison has returned.
AudioCompared ==
    /\ v_pc = "returned"
    /\ predicted.orig.has_audio
    /\ predicted.quant.has_audio

TruncatedLen == Min(Len(predicted.orig.audio), Len(predicted.quant.audio))

\* The two audio outputs agree sample by sample up to the shorter length.
IdenticalAfterTruncation ==
    \A k \in 1..TruncatedLen : predicted.orig.audio[k] = predicted.quant.audio[k]

\* Sums of squares of the truncated original and of the difference; the two
\* mean powers are these divided by the same length.
SignalSum ==
    SumSeq([k \in 1..TruncatedLen |-> predicted.orig.audio[k] * predicted.orig.audio[k]])
NoiseSum ==
    SumSeq([k \in 1..TruncatedLen |->
               (predicted.orig.audio[k] - predicted.quant.audio[k])
                   * (predicted.orig.audio[k] - predicted.quant.audio[k])])

\* The bucket the thresholds assign: SNR > 40 dB is a power ratio above 10^4,
\* SNR > 30 dB one above 10^3, and zero noise is an infinite SNR.
ExpectedBucket ==
    IF NoiseSum = 0 \/ SignalSum > 10000 * NoiseSum THEN "excellent"
    ELSE IF SignalSum > 1000 * NoiseSum THEN "good"
    ELSE "fair"

\* The comparison returned metrics with an infinite SNR and zero errors.
PerfectMetrics ==
    /\ compared[1].ret # None
    /\ compared[1].ret[1].snr_db.inf
    /\ compared[1].ret[1].max_error = RatInt(0)
    /\ compared[1].ret[1].mean_error = RatInt(0)

\* C11: for two "audio" outputs of any lengths, length 0 included, that are
\* identical after truncation to the shorter one, the comparison returns
\* metrics with an infinite SNR and zero max and mean error, in the excellent
\* bucket; and every comparison reports exactly one bucket, the one the
\* thresholds 40 dB and 30 dB assign.
C11_IdenticalAudioIsPerfect ==
    AudioCompared =>
        /\ IdenticalAfterTruncation =>
               PerfectMetrics /\ compared[1].quality = "excellent"
        /\ compared[1].quality = ExpectedBucket

\* C11 for outputs with at least one sample in common: identical outputs give
\* the perfect metrics, and the bucket reported is the one the thresholds assign.
C11_NonEmptyAudio ==
    (AudioCompared /\ TruncatedLen > 0) =>
        /\ compared[1].ret # None
        /\ ~compared[1].raised
        /\ IdenticalAfterTruncation =>
               PerfectMetrics /\ compared[1].quality = "excellent"
        /\ compared[1].quality = ExpectedBucket

\* C11 for an empty truncation: the comparison raises inside the try block and
\* nothing is returned or bucketed.
C11_EmptyAudioRaises ==
    (AudioCompared /\ TruncatedLen = 0) =>
        /\ compared[1].ret = None
        /\ compared[1].raised
        /\ compared[1].quality = "none"

(***************************** report claims ********************************)
\* The report lines printed for operator op.
LinesFor(op) ==
    {k \in 1..Len(report[1].operations.lines) : report[1].operations.lines[k].op = op}

\* C12: in a printed report, every operator whose lower-cased name is in
\* ANE_PROBLEMATIC_OPS (every operator the analysis warned about) is marked
\* problematic and is not marked optimized.
C12_ProblematicMarkedProblematic ==
    (a_pc = "exit" /\ ~report[1].json) =>
        \A op \in DOMAIN results.operations :
            Lower(op) \in ANE_PROBLEMATIC_OPS =>
                /\ \E k \in LinesFor(op) : report[1].operations.lines[k].status = "problematic"
                /\ \A k \in LinesFor(op) : report[1].operations.lines[k].status # "optimized"

\* C12, the part about one category per operator: every counted operator has
\* exactly one report line, carrying one of the three marks and its count.
C12_OneLinePerOperator ==
    (a_pc = "exit" /\ ~report[1].json) =>
        /\ report[1].operations.more = 0
        /\ \A op \in DOMAIN results.operations :
               /\ Cardinality(LinesFor(op)) = 1
               /\ \A k \in LinesFor(op) :
                      /\ report[1].operations.lines[k].status
                             \in {"optimized", "problematic", "unknown"}
                      /\ report[1].operations.lines[k].count = results.operations[op]
        /\ \A k \in 1..(Len(report[1].operations.lines) - 1) :
               report[1].operations.lines[k].count >= report[1].operations.lines[k + 1].count

====
